---- MODULE Spec2Model ----
(***************************************************************************)
(* State-machine model of the VoicemailViewer Lightning Web Component     *)
(* (force-app/main/default/lwc/voicemailViewer/voicemailViewer.js).       *)
(*                                                                         *)
(* JavaScript runs one handler at a time; an async function runs          *)
(* synchronously up to its next await.  Each action below is one such     *)
(* synchronous segment: a handler up to its first await (the request it   *)
(* issues becomes an entry of the bag `pending`), or the continuation     *)
(* that runs when an awaited request settles.                             *)
(***************************************************************************)
EXTENDS Integers, Sequences, FiniteSets, Bags, TLC

(***************************************************************************)
(* Bounds of the model.                                                    *)
(***************************************************************************)
MaxTime == 3        \* the clock runs over 0 .. MaxTime seconds
MaxInFlight == 2    \* suspended async operations at one time
MaxPages == 2       \* largest pageCount a search response reports
MaxExpiresIn == 3   \* largest expires_in (seconds) of a token response

(***************************************************************************)
(* Program constants.                                                      *)
(***************************************************************************)
MsPerSecond == 1000

(***************************************************************************)
(* Value domains.                                                          *)
(***************************************************************************)
Ids == {"v1", "v2"}                 \* voicemail ids the server knows
Notes == {"", "n"}                  \* note texts ("" is the empty note)
Tokens == {"tA", "tB"}              \* access tokens the platform issues
Verifiers == {"pA", "pB"}           \* PKCE verifiers generateCodeVerifier draws
NullItem == "<null>"                \* getItem() of an absent key; also JS null
NoUrl == <<>>                       \* audioUrl: null
Times == {t * MsPerSecond : t \in 0 .. MaxTime}

\* localStorage keeps strings: the expiry is written with toString() and
\* read back with parseInt(.., 10).  <<"none", 0>> is an absent item,
\* <<"num", n>> the decimal string of n, <<"NaN", 0>> the string "NaN".
\* Sockets the component created and holds no longer: how many are still
\* connecting, open, or closing after close().
NoSockets == [connecting |-> 0, open |-> 0, closing |-> 0]
NoExpiry == <<"none", 0>>
NaNExpiry == <<"NaN", 0>>
NumToString(n) == <<"num", n>>
ParseInt(s) == IF s[1] = "num" THEN s ELSE NaNExpiry
\* JS `a < b` with b possibly NaN: any comparison with NaN is false.
LessThan(a, b) == b[1] = "num" /\ a < b[2]
\* JS truthiness of a stored string (null and "" are falsy).
TruthyString(s) == s # NullItem /\ s # ""
TruthyExpiry(e) == e # NoExpiry

VARIABLES
    now,                \* Date.now(), in milliseconds
    ls_token,           \* localStorage['genesyscloud_access_token']
    ls_expiration,      \* localStorage['genesyscloud_token_expiration']
    ss_verifier,        \* sessionStorage['pkce_code_verifier']
    isAuthenticated,    \* @track isAuthenticated
    errorMessage,       \* @track errorMessage (NullItem when null)
    isLoading,          \* @track isLoading
    voicemails,         \* @track voicemails: sequence of records
    currentPage,        \* @track currentPage
    pageCount,          \* @track pageCount
    displayCount,       \* @track displayCount
    hasVoicemail,       \* @track hasVoicemail
    loadedAudioUrls,    \* @track loadedAudioUrls: id -> url (NoUrl: no entry)
    badge,              \* count of the last 'voicemailcount' event dispatched
    listeners,          \* number of 'message' listeners setupAuthListener added
    popupChallenge,     \* code_challenge of the last authorization URL opened
    phase,              \* "constructed" | "connected" | "disconnected"
    websocket,          \* @track websocket: readyState of the socket held
    channelId,          \* @track channelId (NullItem when null)
    isWebSocketConnected, \* @track isWebSocketConnected
    detached,           \* sockets the component no longer holds, by state
    wsSetups,           \* bag of suspended setupWebSocketNotifications calls
    pending,            \* bag of suspended async operations
    last,               \* history: the handler that ran last and its branch
    readResult          \* history: the last Token Store read (SpecTokenStore)

vars == <<now, ls_token, ls_expiration, ss_verifier, isAuthenticated,
          errorMessage, isLoading, voicemails, currentPage, pageCount,
          displayCount, hasVoicemail, loadedAudioUrls, badge, listeners,
          popupChallenge, phase, websocket, channelId, isWebSocketConnected,
          detached, wsSetups, pending, last, readResult>>

tokenStore == <<ls_token, ls_expiration>>

(***************************************************************************)
(* Token Store: getAccessToken().                                          *)
(***************************************************************************)
\* A read that returns the stored token without comparing expiry and now.
GetAccessTokenMut(tok, exp, t) ==
    IF TruthyString(tok) /\ TruthyExpiry(exp) THEN tok ELSE NullItem

\* The token is returned only when both items are truthy and now < expiry.
GetAccessToken(tok, exp, t) ==
    IF TruthyString(tok) /\ TruthyExpiry(exp) /\ LessThan(t, ParseInt(exp))
    THEN tok ELSE NullItem

\* Whether the read removes both items (the else branch of the expiry test).
ReadExpires(tok, exp, t) ==
    TruthyString(tok) /\ TruthyExpiry(exp) /\ ~LessThan(t, ParseInt(exp))

TokenAfterRead(tok, exp, t) == IF ReadExpires(tok, exp, t) THEN NullItem ELSE tok
ExpiryAfterRead(tok, exp, t) == IF ReadExpires(tok, exp, t) THEN NoExpiry ELSE exp
AuthAfterRead(auth, tok, exp, t) == IF ReadExpires(tok, exp, t) THEN FALSE ELSE auth

(***************************************************************************)
(* Voicemail records.                                                      *)
(***************************************************************************)
\* A record of a search response (server-owned fields).
ServerRecords == [id : Ids, read : BOOLEAN, note : Notes, deleted : BOOLEAN]

RECURSIVE SeqsOver(_, _)
\* Sequences over S of length at most n.
SeqsOver(S, n) ==
    IF n = 0 THEN {<<>>}
    ELSE LET shorter == SeqsOver(S, n - 1)
         IN shorter \cup {Append(q, x) : q \in shorter, x \in S}

DistinctIds(list) ==
    \A i, j \in 1 .. Len(list) : list[i].id = list[j].id => i = j

\* The pages a search can return: the platform never lists an id twice.
ServerPages == {p \in SeqsOver(ServerRecords, Cardinality(Ids)) : DistinctIds(p)}

\* Array.prototype.findIndex(vm => vm.id === id): 0 stands for -1.
FindIndex(list, id) ==
    IF \E i \in 1 .. Len(list) : list[i].id = id
    THEN CHOOSE i \in 1 .. Len(list) :
            list[i].id = id /\ \A j \in 1 .. (i - 1) : list[j].id # id
    ELSE 0

CachedIds(list) == {list[i].id : i \in 1 .. Len(list)}

getCardClass(isRead, isExpanded) ==
    <<"slds-card slds-m-bottom_small",
      IF isRead THEN "read-card" ELSE "unread-card">>
    \o (IF isExpanded THEN <<"expanded-card">> ELSE <<>>)

ReadMenuLabel(isRead) == IF isRead THEN "Mark as Unread" ELSE "Mark as Read"
CallerClass(isRead) == IF isRead THEN "read-text" ELSE "unread-text"

UrlOf(id) == <<id>>     \* mediaFileUri the platform resolves for a message

\* A merge that builds every record as if none was cached before.
MergeRecordResetAll(vm, old, k) ==
    [id |-> vm.id, read |-> vm.read, note |-> vm.note, deleted |-> vm.deleted,
     isLoading |-> FALSE, audioUrl |-> NoUrl,
     readMenuLabel |-> ReadMenuLabel(vm.read),
     callerClass |-> CallerClass(vm.read),
     cardClass |-> getCardClass(vm.read, FALSE),
     isEditing |-> FALSE, isExpanded |-> FALSE,
     originalNote |-> vm.note, showMenu |-> FALSE]

\* The object the .map() callback of loadVoicemails builds for one result;
\* k is the index of `existing` in the old list (0: none).
MergeRecord(vm, old, k) ==
    LET isExpanded == IF k = 0 THEN FALSE ELSE old[k].isExpanded
    IN [id |-> vm.id, read |-> vm.read, note |-> vm.note, deleted |-> vm.deleted,
        isLoading |-> IF k = 0 THEN FALSE ELSE old[k].isLoading,
        audioUrl |-> IF k = 0 THEN NoUrl ELSE old[k].audioUrl,
        readMenuLabel |-> ReadMenuLabel(vm.read),
        callerClass |-> CallerClass(vm.read),
        cardClass |-> getCardClass(vm.read, isExpanded),
        isEditing |-> IF k = 0 THEN FALSE ELSE old[k].isEditing,
        isExpanded |-> isExpanded,
        originalNote |-> vm.note,
        showMenu |-> FALSE]

\* A merge that appends the response's records to the old list.
MergeAppending(old, results) ==
    LET kept == SelectSeq(results, LAMBDA vm : ~vm.deleted)
    IN old \o [i \in 1 .. Len(kept) |->
                  MergeRecord(kept[i], old, FindIndex(old, kept[i].id))]

\* results.filter(vm => !vm.deleted).map(...): the new list replaces the old.
Merge(old, results) ==
    LET kept == SelectSeq(results, LAMBDA vm : ~vm.deleted)
    IN [i \in 1 .. Len(kept) |->
           MergeRecord(kept[i], old, FindIndex(old, kept[i].id))]

\* get unreadCount()
UnreadCount(list) == Cardinality({i \in 1 .. Len(list) : ~list[i].read})

(***************************************************************************)
(* Gateway errors: callGenesysCloudApi throws                              *)
(*   new Error(`API error (${response.status}): ${errorText}`).            *)
(* A message is a sequence of pieces; digits are one piece each, so that  *)
(* String.prototype.includes('401') is a search for three pieces.          *)
(***************************************************************************)
DigitChars == <<"0", "1", "2", "3", "4", "5", "6", "7", "8", "9">>

RECURSIVE Digits(_)
Digits(n) ==
    IF n < 10 THEN <<DigitChars[n + 1]>>
    ELSE Digits(n \div 10) \o <<DigitChars[(n % 10) + 1]>>

ApiErrorMessage(status, text) ==
    <<"API error (">> \o Digits(status) \o <<"): ">> \o text

Includes401(msg) ==
    \E i \in 1 .. (Len(msg) - 2) :
        msg[i] = "4" /\ msg[i + 1] = "0" /\ msg[i + 2] = "1"

\* What the component shows of a message: its leading literal.
Shown(msg) == msg[1]

OkStatus == 200
FailStatuses == {401, 500}
ErrorTexts == {<<>>, <<"code ", "4", "0", "1">>}

\* Responses of POST /voicemail/search: a page of results with the page
\* count, a body without results, or a failure status with its text.
SearchResponsesOver(pages, counts, statuses, texts) ==
    [status : {OkStatus}, text : {<<>>}, hasResults : {TRUE},
     results : pages, pageCount : counts]
    \cup [status : {OkStatus}, text : {<<>>}, hasResults : {FALSE},
          results : {<<>>}, pageCount : {0}]
    \cup [status : statuses, text : texts, hasResults : {FALSE},
          results : {<<>>}, pageCount : {0}]

SearchResponses ==
    SearchResponsesOver(ServerPages, 0 .. MaxPages, FailStatuses, ErrorTexts)

\* Responses of the other Gateway calls (PATCH, media).
PlainResponses ==
    [status : {OkStatus}, text : {<<>>}, hasBody : BOOLEAN]
    \cup [status : FailStatuses, text : ErrorTexts, hasBody : {FALSE}]

(***************************************************************************)
(* The component's state as one record, so that a handler is a function   *)
(* from state to state and handlers compose the way the code calls them.  *)
(***************************************************************************)
St ==
    [now |-> now, ls_token |-> ls_token, ls_expiration |-> ls_expiration,
     ss_verifier |-> ss_verifier, isAuthenticated |-> isAuthenticated,
     errorMessage |-> errorMessage, isLoading |-> isLoading,
     voicemails |-> voicemails, currentPage |-> currentPage,
     pageCount |-> pageCount, displayCount |-> displayCount,
     hasVoicemail |-> hasVoicemail, loadedAudioUrls |-> loadedAudioUrls,
     badge |-> badge, listeners |-> listeners,
     popupChallenge |-> popupChallenge, phase |-> phase,
     websocket |-> websocket, channelId |-> channelId,
     isWebSocketConnected |-> isWebSocketConnected, detached |-> detached,
     wsSetups |-> wsSetups, pending |-> pending,
     last |-> last, readResult |-> readResult]

Apply(s) ==
    /\ now' = s.now
    /\ ls_token' = s.ls_token
    /\ ls_expiration' = s.ls_expiration
    /\ ss_verifier' = s.ss_verifier
    /\ isAuthenticated' = s.isAuthenticated
    /\ errorMessage' = s.errorMessage
    /\ isLoading' = s.isLoading
    /\ voicemails' = s.voicemails
    /\ currentPage' = s.currentPage
    /\ pageCount' = s.pageCount
    /\ displayCount' = s.displayCount
    /\ hasVoicemail' = s.hasVoicemail
    /\ loadedAudioUrls' = s.loadedAudioUrls
    /\ badge' = s.badge
    /\ listeners' = s.listeners
    /\ popupChallenge' = s.popupChallenge
    /\ phase' = s.phase
    /\ websocket' = s.websocket
    /\ channelId' = s.channelId
    /\ isWebSocketConnected' = s.isWebSocketConnected
    /\ detached' = s.detached
    /\ wsSetups' = s.wsSetups
    /\ pending' = s.pending
    /\ last' = s.last
    /\ readResult' = s.readResult

\* A suspended async operation: what its continuation closed over.
Op(kind, id, idx, upd, flag, text, due) ==
    [kind |-> kind, id |-> id, idx |-> idx, upd |-> upd, flag |-> flag,
     text |-> text, due |-> due]

Suspend(s, op) == [s EXCEPT !.pending = @ (+) SetToBag({op})]
Resume(s, op) == [s EXCEPT !.pending = @ (-) SetToBag({op})]
InFlight(s) == BagCardinality(s.pending)
Ran(s, what) == [s EXCEPT !.last = what]
Pending(kind) == {op \in BagToSet(pending) : op.kind = kind}

\* this.getAccessToken(): the value returned, and the state it leaves.
TokenOf(s) == GetAccessToken(s.ls_token, s.ls_expiration, s.now)
AfterTokenRead(s) ==
    [s EXCEPT
        !.ls_token = TokenAfterRead(s.ls_token, s.ls_expiration, s.now),
        !.ls_expiration = ExpiryAfterRead(s.ls_token, s.ls_expiration, s.now),
        !.isAuthenticated =
            AuthAfterRead(s.isAuthenticated, s.ls_token, s.ls_expiration, s.now)]

\* updateUtilityBar()
updateUtilityBar(s) == [s EXCEPT !.badge = UnreadCount(s.voicemails)]

(***************************************************************************)
(* Session Manager: login, popup callback, code exchange.                  *)
(***************************************************************************)
\* generateCodeChallenge: SHA-256 then base64url, a function of the verifier.
Challenge(verifier) == <<"S256", verifier>>
NoChallenge == <<"S256", NullItem>>

PopupBlockedMessage == "Popup blocked. Please allow popups for this site."
ExchangeFailedMessage == "Failed to exchange authorization code for token"
SettleDelayMs == 2000

\* handleLogin() up to `await this.generateCodeChallenge(codeVerifier)`;
\* v is the verifier generateCodeVerifier() drew.
handleLogin(s, v) == Suspend(s, Op("login", "", 0, "", FALSE, v, 0))

\* A handleLogin that gives up when the popup is blocked: the verifier is
\* not kept and no listener is added.
handleLoginResumeGivesUp(s, op, blocked) ==
    LET s1 == Resume(s, op)
    IN IF blocked
       THEN [s1 EXCEPT !.errorMessage = PopupBlockedMessage,
                       !.last = "login:blocked"]
       ELSE [s1 EXCEPT !.ss_verifier = op.text,
                       !.popupChallenge = Challenge(op.text),
                       !.listeners = @ + 1,
                       !.last = "login:popup"]

\* handleLogin() after the digest: store the verifier, open the popup,
\* add a message listener, report a blocked popup.
handleLoginResume(s, op, blocked) ==
    LET s1 == Resume(s, op)
    IN [s1 EXCEPT
           !.ss_verifier = op.text,
           !.popupChallenge = IF blocked THEN @ ELSE Challenge(op.text),
           !.listeners = @ + 1,
           !.errorMessage = IF blocked THEN PopupBlockedMessage ELSE @,
           !.last = IF blocked THEN "login:blocked" ELSE "login:popup"]

\* A window 'message' event.
AuthEvents == [originOk : BOOLEAN, typeOk : BOOLEAN, code : {"", "c"}]
isValidAuthEvent(ev) == ev.originOk /\ ev.typeOk /\ ev.code # ""

RECURSIVE RunListeners(_, _)
\* exchangeCodeForToken(code) up to `await fetch(.../oauth/token)`, once
\* for each of the n listeners that setupAuthListener has added.
RunListeners(s, n) ==
    IF n = 0 THEN s
    ELSE LET s1 == IF s.ss_verifier = NullItem
                   THEN [s EXCEPT !.errorMessage = ExchangeFailedMessage]
                   ELSE Suspend(s, Op("exchange", "", 0, "", FALSE,
                                      s.ss_verifier, 0))
         IN RunListeners(s1, n - 1)

\* What a 'message' event is, as the history variable records it.
MessageTag(ev) ==
    IF ~ev.originOk THEN "message:foreign"
    ELSE IF ev.typeOk /\ ev.code # "" THEN "message:valid"
    ELSE "message:malformed"

\* A listener that accepts the callback message from any origin.
onAuthMessageAnyOrigin(s, ev) ==
    IF ev.typeOk /\ ev.code # ""
    THEN Ran(RunListeners(s, s.listeners), MessageTag(ev))
    ELSE Ran(s, MessageTag(ev))

\* The listeners setupAuthListener added, run on one 'message' event.
onAuthMessage(s, ev) ==
    IF isValidAuthEvent(ev)
    THEN Ran(RunListeners(s, s.listeners), MessageTag(ev))
    ELSE Ran(s, MessageTag(ev))

TokenResponses == [ok : BOOLEAN, token : Tokens, expires_in : {1, MaxExpiresIn}]

\* An exchange whose failure sets no error message.
exchangeSettleSilent(s, op, resp) ==
    LET s1 == Resume(s, op)
    IN IF resp.ok
       THEN Suspend(
                [s1 EXCEPT
                    !.ls_token = resp.token,
                    !.ls_expiration =
                        NumToString(s.now + resp.expires_in * MsPerSecond),
                    !.ss_verifier = NullItem,
                    !.isAuthenticated = TRUE,
                    !.last = "exchange:ok"],
                Op("settleTimer", "", 0, "", FALSE, "", s.now + SettleDelayMs))
       ELSE [s1 EXCEPT !.last = "exchange:failed"]

\* An exchange whose success starts the first fetch without a delay.
exchangeSettleNoDelay(s, op, resp) ==
    LET s1 == Resume(s, op)
    IN IF resp.ok
       THEN Suspend(
                [s1 EXCEPT
                    !.ls_token = resp.token,
                    !.ls_expiration =
                        NumToString(s.now + resp.expires_in * MsPerSecond),
                    !.ss_verifier = NullItem,
                    !.isAuthenticated = TRUE,
                    !.last = "exchange:ok"],
                Op("settleTimer", "", 0, "", FALSE, "", s.now))
       ELSE [s1 EXCEPT !.errorMessage = ExchangeFailedMessage,
                       !.last = "exchange:failed"]

\* exchangeCodeForToken after the token response, then the rest of
\* processAuthCallback and initializeAfterAuth.
exchangeSettle(s, op, resp) ==
    LET s1 == Resume(s, op)
    IN IF resp.ok
       THEN Suspend(
                [s1 EXCEPT
                    !.ls_token = resp.token,
                    !.ls_expiration =
                        NumToString(s.now + resp.expires_in * MsPerSecond),
                    !.ss_verifier = NullItem,
                    !.isAuthenticated = TRUE,
                    !.last = "exchange:ok"],
                Op("settleTimer", "", 0, "", FALSE, "", s.now + SettleDelayMs))
       ELSE [s1 EXCEPT !.errorMessage = ExchangeFailedMessage,
                       !.last = "exchange:failed"]

(***************************************************************************)
(* Resource Synchronizer: loadVoicemails.                                  *)
(***************************************************************************)
\* A fetch that sends the search whatever getAccessToken() returned.
loadVoicemailsNoTokenCheck(s, showLoader, v) ==
    LET s1 == [s EXCEPT !.isLoading = showLoader, !.errorMessage = NullItem]
    IN Suspend(AfterTokenRead(s1),
               Op("fetch", "", s1.currentPage, "", FALSE, TokenOf(s1), 0))

\* loadVoicemails(showLoader) up to `await this.callGenesysCloudApi(...)`.
loadVoicemails(s, showLoader, v) ==
    LET s1 == [s EXCEPT !.isLoading = showLoader, !.errorMessage = NullItem]
        accessToken == TokenOf(s1)
        s2 == AfterTokenRead(s1)
    IN IF accessToken = NullItem
       THEN [handleLogin(s2, v) EXCEPT !.isLoading = FALSE]
       ELSE Suspend(s2, Op("fetch", "", s2.currentPage, "", FALSE,
                           accessToken, 0))

\* A catch block that starts the login without removing token and expiry.
fetchFailedKeepsSession(s1, resp, v) ==
    LET message == ApiErrorMessage(resp.status, resp.text)
    IN IF Includes401(message)
       THEN handleLogin([s1 EXCEPT !.isAuthenticated = FALSE], v)
       ELSE [s1 EXCEPT !.errorMessage = Shown(message)]

\* A catch block that, on a 401, empties loadedAudioUrls with the session.
fetchFailedClearsAudioCache(s1, resp, v) ==
    LET message == ApiErrorMessage(resp.status, resp.text)
    IN IF Includes401(message)
       THEN handleLogin([s1 EXCEPT !.ls_token = NullItem,
                                   !.ls_expiration = NoExpiry,
                                   !.isAuthenticated = FALSE,
                                   !.loadedAudioUrls = [id \in Ids |-> NoUrl]],
                        v)
       ELSE [s1 EXCEPT !.errorMessage = Shown(message)]

\* The catch block of loadVoicemails: error.message.includes('401').
fetchFailed(s1, resp, v) ==
    LET message == ApiErrorMessage(resp.status, resp.text)
    IN IF Includes401(message)
       THEN handleLogin([s1 EXCEPT !.ls_token = NullItem,
                                   !.ls_expiration = NoExpiry,
                                   !.isAuthenticated = FALSE], v)
       ELSE [s1 EXCEPT !.errorMessage = Shown(message)]

\* The response of a search, as the history variable records it.
FetchOutcome(resp) ==
    IF resp.status = OkStatus
    THEN IF resp.hasResults THEN "fetch:merged" ELSE "fetch:empty"
    ELSE IF resp.status = 401 THEN "fetch:401" ELSE "fetch:failed"

\* A loadVoicemails that drops the response of a search made for another
\* page than the current one.
fetchSettleDropsStale(s, op, resp, v) ==
    LET s1 == Ran(Resume(s, op), FetchOutcome(resp))
        s2 == IF resp.status # OkStatus THEN fetchFailed(s1, resp, v)
              ELSE IF op.idx # s1.currentPage THEN s1
              ELSE IF ~resp.hasResults
              THEN updateUtilityBar(
                       [s1 EXCEPT !.voicemails = <<>>, !.pageCount = 0,
                                  !.displayCount = 0, !.hasVoicemail = FALSE])
              ELSE LET merged == Merge(s1.voicemails, resp.results)
                   IN updateUtilityBar(
                          [s1 EXCEPT !.voicemails = merged,
                                     !.pageCount = resp.pageCount,
                                     !.displayCount = Len(merged),
                                     !.hasVoicemail = Len(merged) > 0])
    IN [s2 EXCEPT !.isLoading = FALSE]

\* loadVoicemails after the search settles.
fetchSettle(s, op, resp, v) ==
    LET s1 == Ran(Resume(s, op), FetchOutcome(resp))
        s2 == IF resp.status # OkStatus THEN fetchFailed(s1, resp, v)
              ELSE IF ~resp.hasResults
              THEN updateUtilityBar(
                       [s1 EXCEPT !.voicemails = <<>>, !.pageCount = 0,
                                  !.displayCount = 0, !.hasVoicemail = FALSE])
              ELSE LET merged == Merge(s1.voicemails, resp.results)
                   IN updateUtilityBar(
                          [s1 EXCEPT !.voicemails = merged,
                                     !.pageCount = resp.pageCount,
                                     !.displayCount = Len(merged),
                                     !.hasVoicemail = Len(merged) > 0])
    IN [s2 EXCEPT !.isLoading = FALSE]

(***************************************************************************)
(* Resource Synchronizer: mutations.                                       *)
(***************************************************************************)
UpdateFailedPrefix == "Failed to update voicemail: "
AudioFailedPrefix == "Failed to load audio: "

\* updateVoicemail(id, updates) up to the await of its PATCH request.
\* updates is {read: flag}, {note: text} or {deleted: true}, named by upd.
updateVoicemail(s, id, upd, flag, text) ==
    Suspend(AfterTokenRead(s), Op("update", id, 0, upd, flag, text, 0))

\* A record with its read flag and the fields derived from it set.
WithRead(vm, isRead) ==
    [vm EXCEPT !.read = isRead,
               !.readMenuLabel = ReadMenuLabel(isRead),
               !.cardClass = getCardClass(isRead, vm.isExpanded),
               !.callerClass = CallerClass(isRead)]

\* An updateVoicemail that changes the read flag without dispatching the
\* new count.
updateSettleKeepsBadge(s, op, resp) ==
    LET s1 == Resume(s, op)
        k == FindIndex(s1.voicemails, op.id)
    IN IF resp.status # OkStatus
       THEN [s1 EXCEPT !.errorMessage = UpdateFailedPrefix,
                       !.last = "update:failed"]
       ELSE IF k # 0 /\ op.upd = "read"
       THEN [s1 EXCEPT !.voicemails[k] = WithRead(@, op.flag),
                       !.last = "update:read"]
       ELSE Ran(s1, "update:ok")

\* updateVoicemail after the PATCH settles.
updateSettle(s, op, resp) ==
    LET s1 == Resume(s, op)
        k == FindIndex(s1.voicemails, op.id)
    IN IF resp.status # OkStatus
       THEN [s1 EXCEPT !.errorMessage = UpdateFailedPrefix,
                       !.last = "update:failed"]
       ELSE IF k # 0 /\ op.upd = "read"
       THEN updateUtilityBar(
                [s1 EXCEPT !.voicemails[k] = WithRead(@, op.flag),
                           !.last = "update:read"])
       ELSE Ran(s1, "update:ok")

\* handleToggleRead: marks the record read before the request is sent.
handleToggleReadSpeculative(s, id) ==
    LET k == FindIndex(s.voicemails, id)
    IN IF k = 0 THEN s
       ELSE updateVoicemail(
                [s EXCEPT !.voicemails[k] =
                              WithRead([@ EXCEPT !.showMenu = FALSE], ~@.read)],
                id, "read", ~s.voicemails[k].read, "")

\* handleToggleRead: closes the menu and sends the PATCH with the negated
\* read flag; the flag itself is left to updateVoicemail.
handleToggleRead(s, id) ==
    LET k == FindIndex(s.voicemails, id)
    IN IF k = 0 THEN s
       ELSE updateVoicemail([s EXCEPT !.voicemails[k].showMenu = FALSE],
                            id, "read", ~s.voicemails[k].read, "")

handleAudioEnded(s, id) ==
    LET k == FindIndex(s.voicemails, id)
    IN IF k # 0 /\ ~s.voicemails[k].read
       THEN updateVoicemail(s, id, "read", TRUE, "")
       ELSE s

handleEditNote(s, id) ==
    LET k == FindIndex(s.voicemails, id)
    IN IF k = 0 THEN s ELSE [s EXCEPT !.voicemails[k].isEditing = TRUE]

handleNoteChange(s, id, value) ==
    LET k == FindIndex(s.voicemails, id)
    IN IF k = 0 THEN s ELSE [s EXCEPT !.voicemails[k].note = value]

handleSaveNote(s, id) ==
    LET k == FindIndex(s.voicemails, id)
    IN IF k = 0 THEN s
       ELSE LET note == s.voicemails[k].note
                s1 == updateVoicemail(s, id, "note", FALSE, note)
            IN [s1 EXCEPT !.voicemails[k].originalNote = note,
                          !.voicemails[k].isEditing = FALSE]

handleCancelEdit(s, id) ==
    LET k == FindIndex(s.voicemails, id)
    IN IF k = 0 THEN s ELSE [s EXCEPT !.voicemails[k].isEditing = FALSE]

\* A delete that stays on the page it emptied.
handleDeleteStaysOnPage(s, id, v) ==
    LET s1 == updateVoicemail(s, id, "deleted", TRUE, "")
        rest == SelectSeq(s1.voicemails, LAMBDA vm : vm.id # id)
    IN updateUtilityBar(
           [s1 EXCEPT !.voicemails = rest, !.displayCount = Len(rest)])

\* handleDelete: the PATCH is sent, the record is filtered out, and the
\* page before is fetched when the last page was emptied.
handleDelete(s, id, v) ==
    LET isLastPage == s.currentPage = s.pageCount
        isLastItemOnPage == Len(s.voicemails) = 1
        s1 == updateVoicemail(s, id, "deleted", TRUE, "")
        rest == SelectSeq(s1.voicemails, LAMBDA vm : vm.id # id)
        s2 == updateUtilityBar(
                  [s1 EXCEPT !.voicemails = rest, !.displayCount = Len(rest)])
    IN IF isLastPage /\ isLastItemOnPage /\ s2.currentPage > 1
       THEN loadVoicemails([s2 EXCEPT !.currentPage = @ - 1], TRUE, v)
       ELSE s2

(***************************************************************************)
(* Pagination and refresh.                                                 *)
(***************************************************************************)
hasNextPage(s) == s.currentPage < s.pageCount

\* A next-page handler without the hasNextPage test.
handleNextPageUnguarded(s, v) ==
    loadVoicemails([s EXCEPT !.currentPage = @ + 1], TRUE, v)

handleNextPage(s, v) ==
    IF hasNextPage(s)
    THEN loadVoicemails([s EXCEPT !.currentPage = @ + 1], TRUE, v)
    ELSE s

\* A previous-page handler without the currentPage > 1 test.
handlePreviousPageUnguarded(s, v) ==
    loadVoicemails([s EXCEPT !.currentPage = @ - 1], TRUE, v)

handlePreviousPage(s, v) ==
    IF s.currentPage > 1
    THEN loadVoicemails([s EXCEPT !.currentPage = @ - 1], TRUE, v)
    ELSE s

handleRefresh(s, v) == loadVoicemails(s, TRUE, v)

(***************************************************************************)
(* Menus, cards and audio.                                                 *)
(***************************************************************************)
CloseMenus(list) ==
    [i \in 1 .. Len(list) |-> [list[i] EXCEPT !.showMenu = FALSE]]

handleOutsideClick(s) ==
    IF \E i \in 1 .. Len(s.voicemails) : s.voicemails[i].showMenu
    THEN [s EXCEPT !.voicemails = CloseMenus(@)]
    ELSE s

handleMenuToggle(s, id) ==
    LET list == s.voicemails
    IN [s EXCEPT !.voicemails =
           [i \in 1 .. Len(list) |->
               [list[i] EXCEPT !.showMenu =
                   IF list[i].id = id THEN ~list[i].showMenu ELSE FALSE]]]

\* A loadVoicemailAudio that asks the server without looking into
\* loadedAudioUrls.
loadVoicemailAudioUncached(s, id) ==
    LET k == FindIndex(s.voicemails, id)
    IN IF k = 0 THEN s
       ELSE Suspend(AfterTokenRead([s EXCEPT !.voicemails[k].isLoading = TRUE]),
                    Op("audio", id, k, "", FALSE, "", 0))

\* loadVoicemailAudio(id) up to the await of the media request; the
\* continuation closes over the index k, not over the id.
loadVoicemailAudio(s, id) ==
    LET k == FindIndex(s.voicemails, id)
    IN IF k = 0 THEN s
       ELSE IF s.loadedAudioUrls[id] # NoUrl
       THEN [s EXCEPT !.voicemails[k].audioUrl = s.loadedAudioUrls[id],
                      !.last = "audio:cached"]
       ELSE Suspend(AfterTokenRead([s EXCEPT !.voicemails[k].isLoading = TRUE]),
                    Op("audio", id, k, "", FALSE, "", 0))

\* loadVoicemailAudio after the media request settles.  Writing through an
\* index past the end of the list throws a TypeError: inside the try it is
\* caught (errorMessage), inside the finally it ends the function.
audioSettle(s, op, resp) ==
    LET s1 == Resume(s, op)
        k == op.idx
        inRange == k <= Len(s1.voicemails)
        good == resp.status = OkStatus /\ resp.hasBody /\ inRange
        s2 == IF good
              THEN [s1 EXCEPT
                       !.voicemails[k].audioUrl = UrlOf(op.id),
                       !.loadedAudioUrls[op.id] = UrlOf(op.id)]
              ELSE [s1 EXCEPT !.errorMessage = AudioFailedPrefix]
        s3 == Ran(s2, IF good THEN "audio:ok" ELSE "audio:failed")
    IN IF inRange THEN [s3 EXCEPT !.voicemails[k].isLoading = FALSE] ELSE s3

handlePlayVoicemail(s, id) == loadVoicemailAudio(s, id)

handleCardClick(s, id) ==
    LET k == FindIndex(s.voicemails, id)
    IN IF k = 0 THEN s
       ELSE LET closed == CloseMenus(s.voicemails)
                expanded == ~closed[k].isExpanded
                vm1 == [closed[k] EXCEPT
                           !.isExpanded = expanded,
                           !.cardClass = getCardClass(closed[k].read, expanded)]
                vm2 == IF ~expanded
                       THEN [vm1 EXCEPT !.isEditing = FALSE,
                                        !.note = vm1.originalNote]
                       ELSE vm1
                s1 == [s EXCEPT !.voicemails = [closed EXCEPT ![k] = vm2]]
            IN IF expanded /\ vm2.audioUrl = NoUrl
               THEN loadVoicemailAudio(s1, id)
               ELSE s1

(***************************************************************************)
(* Notification Channel: setupWebSocketNotifications and the socket's      *)
(* handlers.                                                               *)
(***************************************************************************)
DebounceDelayMs == 2000
ReconnectDelayMs == 5000
ChannelIdValue == "ch"      \* channelResponse.id

\* message.topicName, split at the dots; <<>> is a message without one.
Topics == {<<>>,
           <<"v2", "users", "u", "voicemail", "messages">>,
           <<"v2", "users", "u", "presence">>,
           <<"channel", "metadata">>}
\* message.topicName && message.topicName.includes('voicemail.messages')
IncludesVoicemailMessages(topic) ==
    \E i \in 1 .. (Len(topic) - 1) :
        topic[i] = "voicemail" /\ topic[i + 1] = "messages"

\* A setup that sends its request whatever getAccessToken() returned.
setupWebSocketNotificationsNoTokenCheck(s) ==
    [AfterTokenRead(s) EXCEPT !.wsSetups =
        @ (+) SetToBag({[stage |-> "user", token |-> TokenOf(s)]})]

\* setupWebSocketNotifications() up to the await of GET /users/me.  The
\* token read here is the one all three requests carry.
setupWebSocketNotifications(s) ==
    LET accessToken == TokenOf(s)
        s1 == AfterTokenRead(s)
    IN IF accessToken = NullItem THEN s1
       ELSE [s1 EXCEPT !.wsSetups =
                @ (+) SetToBag({[stage |-> "user", token |-> accessToken]})]

\* new WebSocket(wsUri) assigned to this.websocket: a socket held before
\* stays as it is, without a reference to it.
newWebSocket(s) ==
    [s EXCEPT !.websocket = "connecting",
              !.detached = IF s.websocket \in {"connecting", "open"}
                           THEN [@ EXCEPT ![s.websocket] = @ + 1]
                           ELSE @]

\* setupWebSocketNotifications after one of its three requests settles:
\* users/me, channels, subscriptions.  A failure status, or a null body
\* whose field is read, ends in the catch block, which only logs.
wsSettle(s, op, resp) ==
    LET s1 == [s EXCEPT !.wsSetups = @ (-) SetToBag({op})]
        ok == resp.status = OkStatus /\ (resp.hasBody \/ op.stage = "subscribe")
        next(stage) == [s1 EXCEPT !.wsSetups =
                           @ (+) SetToBag({[op EXCEPT !.stage = stage]})]
    IN IF ~ok THEN Ran(s1, "ws:failed")
       ELSE IF op.stage = "user" THEN Ran(next("channel"), "ws:user")
       ELSE IF op.stage = "channel"
       THEN Ran([next("subscribe") EXCEPT !.channelId = ChannelIdValue],
                "ws:channel")
       ELSE Ran(newWebSocket(s1), "ws:socket")

\* websocket.onopen, on the socket held (held = TRUE) or on a detached one.
onopen(s, held) ==
    LET s1 == IF held THEN [s EXCEPT !.websocket = "open"]
              ELSE [s EXCEPT !.detached.connecting = @ - 1,
                             !.detached.open = @ + 1]
    IN [s1 EXCEPT !.isWebSocketConnected = TRUE, !.last = "ws:open"]

\* handleVoicemailNotification: setTimeout(() => loadVoicemails(false), 2000)
handleVoicemailNotification(s) ==
    Suspend(s, Op("notifyTimer", "", 0, "", FALSE, "", s.now + DebounceDelayMs))

\* An onmessage that reloads on a message of any topic.
onmessageAnyTopic(s, topic) ==
    handleVoicemailNotification(
        Ran(s, IF IncludesVoicemailMessages(topic)
               THEN "ws:voicemail" ELSE "ws:other"))

\* websocket.onmessage
onmessage(s, topic) ==
    IF IncludesVoicemailMessages(topic)
    THEN handleVoicemailNotification(Ran(s, "ws:voicemail"))
    ELSE Ran(s, "ws:other")

\* The callback of handleVoicemailNotification's setTimeout.
notifyTimerFire(s, op, v) ==
    loadVoicemails(Ran(Resume(s, op), "timer:notify"), FALSE, v)

\* websocket.onerror
onerror(s) == [s EXCEPT !.isWebSocketConnected = FALSE, !.last = "ws:error"]

\* websocket.onclose on a socket in state st, held or detached: the socket
\* is gone, and a reconnect is scheduled.
onclose(s, held, st) ==
    LET s1 == IF held THEN [s EXCEPT !.websocket = "closed"]
              ELSE [s EXCEPT !.detached[st] = @ - 1]
    IN Suspend([s1 EXCEPT !.isWebSocketConnected = FALSE, !.last = "ws:close"],
               Op("reconnectTimer", "", 0, "", FALSE, "",
                  s.now + ReconnectDelayMs))

\* The callback of onclose's setTimeout.
reconnectTimerFire(s, op) ==
    LET s1 == Ran(Resume(s, op), "timer:reconnect")
    IN IF s1.isAuthenticated THEN setupWebSocketNotifications(s1) ELSE s1

\* closeWebSocket(): close() on a live socket starts its closing handshake.
closeWebSocket(s) ==
    LET s1 == IF s.websocket = NullItem THEN s
              ELSE [s EXCEPT !.websocket = NullItem,
                             !.detached.closing =
                                 IF s.websocket \in {"connecting", "open"}
                                 THEN @ + 1 ELSE @]
    IN [s1 EXCEPT !.isWebSocketConnected = FALSE]

(***************************************************************************)
(* Lifecycle.                                                              *)
(***************************************************************************)
connectedCallback(s, v) ==
    LET accessToken == TokenOf(s)
        s1 == [AfterTokenRead(s) EXCEPT
                  !.isAuthenticated = accessToken # NullItem,
                  !.badge = 0,
                  !.phase = "connected",
                  !.last = "mount"]
    IN IF s1.isAuthenticated
       THEN setupWebSocketNotifications(loadVoicemails(s1, TRUE, v))
       ELSE handleLogin(s1, v)

\* disconnectedCallback(): removeEventListener is given a new bound
\* function and removes nothing; closeWebSocket().
disconnectedCallback(s) ==
    [closeWebSocket(s) EXCEPT !.phase = "disconnected", !.last = "unmount"]

\* The callback of initializeAfterAuth's setTimeout.
settleTimerFire(s, op, v) ==
    setupWebSocketNotifications(
        loadVoicemails(Ran(Resume(s, op), "timer:settle"), TRUE, v))

(***************************************************************************)
(* Actions.  A handler is taken only when the operations it suspends fit  *)
(* the bounds.  The user-driven actions take the set of ids the user acts *)
(* on, the settling of a search the set of responses it draws from.       *)
(***************************************************************************)
MaxListeners == 2
MaxSetups == 2      \* channel setups awaiting a response at one time
MaxRenewalTime == 2 \* seconds the clock of the renewal scenario runs

Step(s) ==
    /\ InFlight(s) <= MaxInFlight
    /\ s.listeners <= MaxListeners
    /\ BagCardinality(s.wsSetups) <= MaxSetups
    /\ Apply(s)

Connected == phase = "connected"
Cached == CachedIds(voicemails)

\* Actions that can start a login take the set vs of verifiers that
\* generateCodeVerifier() may draw.
OneVerifier == {"pA"}

\* Time passes, up to limit seconds.
TickTo(limit) ==
    /\ now < limit * MsPerSecond
    /\ now' = now + MsPerSecond
    /\ UNCHANGED <<ls_token, ls_expiration, ss_verifier, isAuthenticated,
                   errorMessage, isLoading, voicemails, currentPage,
                   pageCount, displayCount, hasVoicemail, loadedAudioUrls,
                   badge, listeners, popupChallenge, phase, websocket,
                   channelId, isWebSocketConnected, detached, wsSetups,
                   pending, last, readResult>>
Tick == TickTo(MaxTime)

Mount(vs) ==
    /\ phase = "constructed"
    /\ \E v \in vs : Step(connectedCallback(St, v))

LoginResume ==
    \E op \in Pending("login"), blocked \in BOOLEAN :
        Step(handleLoginResume(St, op, blocked))

AuthMessageOn(events) ==
    /\ Connected
    /\ \E ev \in events : Step(onAuthMessage(St, ev))
AuthMessage == AuthMessageOn(AuthEvents)

ExchangeSettleOn(responses) ==
    \E op \in Pending("exchange"), resp \in responses :
        Step(exchangeSettle(St, op, resp))
ExchangeSettle == ExchangeSettleOn(TokenResponses)

SettleTimerFire(vs) ==
    \E op \in Pending("settleTimer"), v \in vs :
        /\ now >= op.due
        /\ Step(settleTimerFire(St, op, v))

FetchSettleOn(responses, vs) ==
    \E op \in Pending("fetch"), resp \in responses, v \in vs :
        Step(fetchSettle(St, op, resp, v))

UpdateSettle ==
    \E op \in Pending("update"), resp \in PlainResponses :
        Step(updateSettle(St, op, resp))

AudioSettleOn(responses) ==
    \E op \in Pending("audio"), resp \in responses :
        Step(audioSettle(St, op, resp))
AudioSettle == AudioSettleOn(PlainResponses)

WsSettleOn(responses) ==
    \E op \in BagToSet(wsSetups), resp \in responses :
        Step(wsSettle(St, op, resp))
WsSettle == WsSettleOn(PlainResponses)

\* Events of the sockets the component created.
SocketOpen == websocket = "connecting" /\ Step(onopen(St, TRUE))
DetachedSocketOpen == detached.connecting > 0 /\ Step(onopen(St, FALSE))
SocketMessageOn(topics) ==
    /\ websocket = "open" \/ detached.open > 0
    /\ \E topic \in topics : Step(onmessage(St, topic))
SocketError ==
    /\ websocket \in {"connecting", "open"}
          \/ detached.connecting + detached.open > 0
    /\ Step(onerror(St))
SocketClose ==
    websocket \in {"connecting", "open"} /\ Step(onclose(St, TRUE, websocket))
DetachedSocketClose ==
    \E st \in DOMAIN detached :
        detached[st] > 0 /\ Step(onclose(St, FALSE, st))

NotifyTimerFire(vs) ==
    \E op \in Pending("notifyTimer"), v \in vs :
        /\ now >= op.due
        /\ Step(notifyTimerFire(St, op, v))
ReconnectTimerFire ==
    \E op \in Pending("reconnectTimer") :
        /\ now >= op.due
        /\ Step(reconnectTimerFire(St, op))

Unmount == Connected /\ Step(disconnectedCallback(St))

Refresh(vs) ==
    Connected /\ \E v \in vs : Step(handleRefresh(Ran(St, "user"), v))
NextPage(vs) ==
    Connected /\ \E v \in vs : Step(handleNextPage(Ran(St, "user"), v))
PreviousPage(vs) ==
    Connected /\ \E v \in vs : Step(handlePreviousPage(Ran(St, "user"), v))

ToggleReadOn(ids) ==
    Connected /\ \E id \in Cached \cap ids :
        Step(handleToggleRead(Ran(St, "user"), id))
AudioEndedOn(ids) ==
    Connected /\ \E id \in Cached \cap ids :
        Step(handleAudioEnded(Ran(St, "user"), id))
EditNoteOn(ids) ==
    Connected /\ \E id \in Cached \cap ids :
        Step(handleEditNote(Ran(St, "user"), id))
NoteChangeOn(ids) ==
    Connected /\ \E id \in Cached \cap ids, value \in Notes :
        Step(handleNoteChange(Ran(St, "user"), id, value))
SaveNoteOn(ids) ==
    Connected /\ \E id \in Cached \cap ids :
        Step(handleSaveNote(Ran(St, "user"), id))
CancelEditOn(ids) ==
    Connected /\ \E id \in Cached \cap ids :
        Step(handleCancelEdit(Ran(St, "user"), id))
DeleteOn(ids, vs) ==
    Connected /\ \E id \in Cached \cap ids, v \in vs :
        Step(handleDelete(Ran(St, "user"), id, v))
OutsideClick == Connected /\ Step(handleOutsideClick(Ran(St, "user")))
MenuToggleOn(ids) ==
    Connected /\ \E id \in Cached \cap ids :
        Step(handleMenuToggle(Ran(St, "user"), id))
CardClickOn(ids) ==
    Connected /\ \E id \in Cached \cap ids :
        Step(handleCardClick(Ran(St, "user"), id))
PlayVoicemailOn(ids) ==
    Connected /\ \E id \in Cached \cap ids :
        Step(handlePlayVoicemail(Ran(St, "user"), id))

(***************************************************************************)
(* The component after construction.  localStorage outlives the page: it  *)
(* is empty, or holds the session an earlier page load stored.            *)
(***************************************************************************)
NeverRead == [value |-> NullItem, token |-> NullItem, expiry |-> NoExpiry, at |-> 0]

StoredSessions ==
    {<<NullItem, NoExpiry>>}
    \cup {<<tok, NumToString(t)>> :
            tok \in {"tA"},
            t \in {0, 2 * MsPerSecond, (MaxTime + 1) * MsPerSecond}}

InitOver(sessions) ==
    /\ now = 0
    /\ \E sess \in sessions :
          ls_token = sess[1] /\ ls_expiration = sess[2]
    /\ ss_verifier = NullItem
    /\ isAuthenticated = FALSE
    /\ errorMessage = NullItem
    /\ isLoading = FALSE
    /\ voicemails = <<>>
    /\ currentPage = 1
    /\ pageCount = 0
    /\ displayCount = 0
    /\ hasVoicemail = FALSE
    /\ loadedAudioUrls = [id \in Ids |-> NoUrl]
    /\ badge = 0
    /\ listeners = 0
    /\ popupChallenge = NoChallenge
    /\ phase = "constructed"
    /\ websocket = NullItem
    /\ channelId = NullItem
    /\ isWebSocketConnected = FALSE
    /\ detached = NoSockets
    /\ wsSetups = EmptyBag
    /\ pending = EmptyBag
    /\ last = "constructor"
    /\ readResult = NeverRead
Init == InitOver(StoredSessions)

(***************************************************************************)
(* The whole component: every handler, every response.                     *)
(***************************************************************************)
Next ==
    \/ Tick
    \/ Mount(Verifiers)
    \/ LoginResume
    \/ AuthMessage
    \/ ExchangeSettle
    \/ SettleTimerFire(Verifiers)
    \/ FetchSettleOn(SearchResponses, Verifiers)
    \/ UpdateSettle
    \/ AudioSettle
    \/ Refresh(Verifiers)
    \/ NextPage(Verifiers)
    \/ PreviousPage(Verifiers)
    \/ ToggleReadOn(Ids)
    \/ AudioEndedOn(Ids)
    \/ EditNoteOn(Ids)
    \/ NoteChangeOn(Ids)
    \/ SaveNoteOn(Ids)
    \/ CancelEditOn(Ids)
    \/ DeleteOn(Ids, Verifiers)
    \/ OutsideClick
    \/ MenuToggleOn(Ids)
    \/ CardClickOn(Ids)
    \/ PlayVoicemailOn(Ids)
    \/ WsSettle
    \/ SocketOpen
    \/ DetachedSocketOpen
    \/ SocketMessageOn(Topics)
    \/ SocketError
    \/ SocketClose
    \/ DetachedSocketClose
    \/ NotifyTimerFire(Verifiers)
    \/ ReconnectTimerFire
    \/ Unmount

Spec == Init /\ [][Next]_vars

(***************************************************************************)
(* Token Store alone: reads, writes and clears of the two localStorage    *)
(* items at any time, from any stored pair.                                *)
(***************************************************************************)
StoredTokens == {NullItem} \cup Tokens
StoredExpiries == {NoExpiry, NaNExpiry} \cup {NumToString(t) : t \in Times}

InitTokenStore ==
    /\ now \in Times
    /\ ls_token \in StoredTokens
    /\ ls_expiration \in StoredExpiries
    /\ ss_verifier = NullItem
    /\ isAuthenticated \in BOOLEAN
    /\ errorMessage = NullItem
    /\ isLoading = FALSE
    /\ voicemails = <<>>
    /\ currentPage = 1
    /\ pageCount = 0
    /\ displayCount = 0
    /\ hasVoicemail = FALSE
    /\ loadedAudioUrls = [id \in Ids |-> NoUrl]
    /\ badge = 0
    /\ listeners = 0
    /\ popupChallenge = NoChallenge
    /\ phase = "constructed"
    /\ websocket = NullItem
    /\ channelId = NullItem
    /\ isWebSocketConnected = FALSE
    /\ detached = NoSockets
    /\ wsSetups = EmptyBag
    /\ pending = EmptyBag
    /\ last = "constructor"
    /\ readResult = NeverRead

\* getAccessToken(), with what it was called on and what it returned.
TokenRead ==
    Apply([AfterTokenRead(St) EXCEPT
              !.last = "getAccessToken",
              !.readResult = [value |-> TokenOf(St), token |-> ls_token,
                              expiry |-> ls_expiration, at |-> now]])

\* The two setItem calls of exchangeCodeForToken.
TokenWrite ==
    \E tok \in Tokens, expiresIn \in {1, MaxExpiresIn} :
        Apply([St EXCEPT
                  !.ls_token = tok,
                  !.ls_expiration = NumToString(now + expiresIn * MsPerSecond),
                  !.last = "setItem"])

\* The two removeItem calls of the 401 branch of loadVoicemails.
TokenClear ==
    Apply([St EXCEPT !.ls_token = NullItem, !.ls_expiration = NoExpiry,
                     !.last = "removeItem"])

NextTokenStore == Tick \/ TokenRead \/ TokenWrite \/ TokenClear

SpecTokenStore == InitTokenStore /\ [][NextTokenStore]_vars

(***************************************************************************)
(* Scenarios: the component under the handlers and the responses one part *)
(* of it involves.                                                         *)
(***************************************************************************)
\* Pages of unread records without notes.
PlainPages ==
    {p \in ServerPages :
        \A i \in 1 .. Len(p) : ~p[i].deleted /\ ~p[i].read /\ p[i].note = ""}
\* Pages whose records differ in read and deleted.
ReadPages ==
    {p \in ServerPages :
        \A i \in 1 .. Len(p) : p[i].note = "" /\ (p[i].deleted => ~p[i].read)}
\* Pages whose records differ in their note.
NotePages ==
    {p \in ServerPages : \A i \in 1 .. Len(p) : ~p[i].deleted /\ ~p[i].read}

\* The mailbox of the session scenario holds the one message v1.
SessionPages == {p \in PlainPages : Len(p) = 1 /\ p[1].id = "v1"}
\* The window message of the scenarios: the popup's callback.
CallbackEvents ==
    {ev \in AuthEvents : ev.originOk /\ ev.typeOk /\ ev.code # ""}
\* The window messages of the login scenario: the popup's callback, the
\* same message from a foreign origin, and a message without a code.
LoginEvents ==
    {ev \in AuthEvents : ev.typeOk /\ (ev.code # "" \/ ev.originOk)}
\* The token endpoint of the scenarios issues one token, which differs from
\* the stored one.
FreshTokenResponses == {resp \in TokenResponses : resp.token = "tB"}
SessionResponses ==
    SearchResponsesOver(SessionPages, {1}, FailStatuses, ErrorTexts)
\* The mailbox of the synchronization scenario: unread messages, of which
\* the server may report v2 as deleted.
SyncPages ==
    {p \in ReadPages :
        \A i \in 1 .. Len(p) : ~p[i].read /\ (p[i].deleted => p[i].id = "v2")}
SyncResponses == SearchResponsesOver(SyncPages, {1, MaxPages}, {401}, {<<>>})
\* The mailbox of the card scenario: the note of v1 varies.  Its media
\* requests succeed, come back without a body, or fail with one status.
CardPages == {p \in NotePages : \A i \in 1 .. Len(p) : p[i].id # "v1" => p[i].note = ""}
CardResponses == SearchResponsesOver(CardPages, {1}, {500}, {<<>>})
MediaResponses == {resp \in PlainResponses : resp.status \in {OkStatus, 500} /\ resp.text = <<>>}

\* The card the user works with in the card scenario.
Focus == {"v1"}

\* Session: mount, login, popup callback, code exchange, expiry, fetch.
NextSession ==
    \/ Tick
    \/ Mount(OneVerifier)
    \/ LoginResume
    \/ AuthMessageOn(CallbackEvents)
    \/ ExchangeSettleOn(FreshTokenResponses)
    \/ SettleTimerFire(OneVerifier)
    \/ FetchSettleOn(SessionResponses, OneVerifier)
    \/ Refresh(OneVerifier)

SpecSession == Init /\ [][NextSession]_vars

\* Synchronization: fetch, pagination, read/unread, delete.
NextSync ==
    \/ Mount(OneVerifier)
    \/ FetchSettleOn(SyncResponses, OneVerifier)
    \/ UpdateSettle
    \/ Refresh(OneVerifier)
    \/ NextPage(OneVerifier)
    \/ PreviousPage(OneVerifier)
    \/ ToggleReadOn(Ids)
    \/ AudioEndedOn(Ids)
    \/ DeleteOn(Ids, OneVerifier)

SpecSync == Init /\ [][NextSync]_vars

\* Read state: marking records read and unread, by the menu or by playing
\* to the end, while fetches of one page come and go.
MarkPages ==
    {p \in ServerPages : \A i \in 1 .. Len(p) : ~p[i].deleted /\ p[i].note = ""}
MarkResponses == SearchResponsesOver(MarkPages, {1}, {500}, {<<>>})

NextMark ==
    \/ Mount(OneVerifier)
    \/ FetchSettleOn(MarkResponses, OneVerifier)
    \/ UpdateSettle
    \/ Refresh(OneVerifier)
    \/ ToggleReadOn(Ids)
    \/ AudioEndedOn(Ids)

SpecMark == Init /\ [][NextMark]_vars

\* Cards: expanding, menus, typing a note and audio of one card, with fetch.
NextCard ==
    \/ Mount(OneVerifier)
    \/ FetchSettleOn(CardResponses, OneVerifier)
    \/ AudioSettleOn(MediaResponses)
    \/ Refresh(OneVerifier)
    \/ CardClickOn(Focus)
    \/ PlayVoicemailOn(Focus)
    \/ MenuToggleOn(Focus)
    \/ OutsideClick
    \/ EditNoteOn(Focus)
    \/ NoteChangeOn(Focus)
    \/ CancelEditOn(Focus)

SpecCard == Init /\ [][NextCard]_vars

\* Notes: typing and saving the note of one card, with fetch.
NextNote ==
    \/ Mount(OneVerifier)
    \/ FetchSettleOn(CardResponses, OneVerifier)
    \/ UpdateSettle
    \/ Refresh(OneVerifier)
    \/ EditNoteOn(Focus)
    \/ NoteChangeOn(Focus)
    \/ SaveNoteOn(Focus)
    \/ CancelEditOn(Focus)

SpecNote == Init /\ [][NextNote]_vars

\* PKCE: logins that overlap at the digest, each with a verifier of its
\* own, from mount and from refresh clicks without a session.
NextPkce ==
    \/ Mount(Verifiers)
    \/ Refresh(Verifiers)
    \/ LoginResume
    \/ AuthMessageOn(CallbackEvents)
    \/ ExchangeSettleOn(FreshTokenResponses)

SpecPkce == InitOver({<<NullItem, NoExpiry>>}) /\ [][NextPkce]_vars

\* Audio: playing a message and keeping its URL while the list is paged,
\* refetched, deleted from, and the session is lost and renewed.
\* The clock stands still in this scenario: one stored session is valid
\* throughout, until a 401 removes it.
AudioSessions == {<<"tA", NumToString(MsPerSecond)>>}
AudioResponses == SearchResponsesOver(SessionPages, {MaxPages}, {401}, {<<>>})

NextAudio ==
    \/ Mount(OneVerifier)
    \/ LoginResume
    \/ AuthMessageOn(CallbackEvents)
    \/ ExchangeSettleOn(FreshTokenResponses)
    \/ FetchSettleOn(AudioResponses, OneVerifier)
    \/ AudioSettle
    \/ UpdateSettle
    \/ Refresh(OneVerifier)
    \/ NextPage(OneVerifier)
    \/ PreviousPage(OneVerifier)
    \/ PlayVoicemailOn(Focus)
    \/ DeleteOn(Focus, OneVerifier)

SpecAudio == InitOver(AudioSessions) /\ [][NextAudio]_vars

\* Push: the notification channel is set up, messages of several topics
\* arrive, and the reload timers run down while searches come and go.
PushResponses == SearchResponsesOver(SessionPages, {MaxPages}, {500}, {<<>>})

NextPush ==
    \/ Tick
    \/ Mount(OneVerifier)
    \/ WsSettle
    \/ SocketOpen
    \/ SocketMessageOn(Topics)
    \/ NotifyTimerFire(OneVerifier)
    \/ FetchSettleOn(PushResponses, OneVerifier)
    \/ NextPage(OneVerifier)

SpecPush == Init /\ [][NextPush]_vars

\* Teardown: the channel is set up, its socket opens, delivers messages,
\* fails and closes, the component is removed, and the timers run down.  The stored
\* session outlives the time the scenario covers.
MaxChannelTime == 5     \* the clock of the teardown scenario, in seconds
ChannelSessions == {<<"tA", NumToString((MaxChannelTime + 1) * MsPerSecond)>>}

NextTeardown ==
    \/ TickTo(MaxChannelTime)
    \/ Mount(OneVerifier)
    \/ WsSettle
    \/ SocketOpen
    \/ SocketMessageOn(Topics)
    \/ NotifyTimerFire(OneVerifier)
    \/ FetchSettleOn(PushResponses, OneVerifier)
    \/ SocketError
    \/ SocketClose
    \/ DetachedSocketClose
    \/ ReconnectTimerFire
    \/ Unmount

SpecTeardown == InitOver(ChannelSessions) /\ [][NextTeardown]_vars

\* The requests of the channel setup succeed, come back without a body,
\* or fail with one status.
ChannelResponses == MediaResponses

\* Reconnect: the socket closes and the reconnect delay runs down while the
\* session is lost to a 401 or to expiry.
ReconnectSessions ==
    {<<"tA", NumToString(t * MsPerSecond)>> : t \in {3, MaxChannelTime + 1}}
ReconnectResponses == SearchResponsesOver(SessionPages, {1}, {401}, {<<>>})

NextReconnect ==
    \/ TickTo(MaxChannelTime)
    \/ Mount(OneVerifier)
    \/ WsSettleOn(ChannelResponses)
    \/ SocketOpen
    \/ SocketClose
    \/ ReconnectTimerFire
    \/ FetchSettleOn(ReconnectResponses, OneVerifier)

SpecReconnect == InitOver(ReconnectSessions) /\ [][NextReconnect]_vars

\* Renewal: the channel is up when a 401 ends the session; the user logs in
\* again and the channel is set up a second time.
RenewalSessions == {<<"tA", NumToString((MaxTime + 1) * MsPerSecond)>>}

\* Every search of the scenario is answered 401, and the token endpoint
\* issues one long-lived token.
RenewalResponses == {resp \in ReconnectResponses : resp.status = 401}
RenewalTokens ==
    {resp \in FreshTokenResponses : resp.ok /\ resp.expires_in = MaxExpiresIn}

NextRenewal ==
    \/ TickTo(MaxRenewalTime)
    \/ Mount(OneVerifier)
    \/ WsSettleOn(ChannelResponses)
    \/ SocketOpen
    \/ FetchSettleOn(RenewalResponses, OneVerifier)
    \/ LoginResume
    \/ AuthMessageOn(CallbackEvents)
    \/ ExchangeSettleOn(RenewalTokens)
    \/ SettleTimerFire(OneVerifier)

SpecRenewal == InitOver(RenewalSessions) /\ [][NextRenewal]_vars

\* Login: the popup flow from the login click to the first fetch, with
\* window messages of three kinds and a token endpoint that may refuse.
\* The widget starts without a session, or with one about to expire.
LoginSessions ==
    {<<NullItem, NoExpiry>>, <<"tA", NumToString(2 * MsPerSecond)>>}
LoginResponses == SearchResponsesOver(SessionPages, {1}, {401}, {<<>>})

NextLogin ==
    \/ Tick
    \/ Mount(OneVerifier)
    \/ LoginResume
    \/ AuthMessageOn(LoginEvents)
    \/ ExchangeSettleOn(FreshTokenResponses)
    \/ SettleTimerFire(OneVerifier)
    \/ FetchSettleOn(LoginResponses, OneVerifier)

SpecLogin == InitOver(LoginSessions) /\ [][NextLogin]_vars

(***************************************************************************)
(* Properties.                                                             *)
(***************************************************************************)
\* Suspended operations of one kind, counted with multiplicity.
CountOf(bag, kind) ==
    LET ops == {op \in BagToSet(bag) : op.kind = kind}
    IN BagCardinality([op \in ops |-> bag[op]])

\* The store holds a token whose expiry lies in the future.
HasValidSession ==
    /\ ls_token # NullItem
    /\ ls_expiration[1] = "num"
    /\ now < ls_expiration[2]

\* The step is loadVoicemails settling the search op with response resp.
FetchSettleStep(op, resp) ==
    /\ last' = FetchOutcome(resp)
    /\ \E v \in OneVerifier : Step(fetchSettle(St, op, resp, v))
\* The step is updateVoicemail settling the PATCH op with response resp.
UpdateSettled == last' \in {"update:failed", "update:read", "update:ok"}
UpdateSettleStep(op, resp) ==
    UpdateSettled /\ Step(updateSettle(St, op, resp))

\* C1: a Token Store read returns the token only when now < expiry; a read
\* of a stored token whose expiry has passed returns null and leaves both
\* items removed.
C1_ReadNeverReturnsExpired ==
    last = "getAccessToken" =>
        LET r == readResult
            stored == r.token # NullItem /\ r.expiry # NoExpiry
        IN /\ r.value # NullItem =>
                 /\ r.value = r.token
                 /\ r.expiry[1] = "num"
                 /\ r.at < r.expiry[2]
           /\ (stored /\ r.expiry[1] = "num" /\ r.at >= r.expiry[2]) =>
                 /\ r.value = NullItem
                 /\ ls_token = NullItem
                 /\ ls_expiration = NoExpiry

C1_Witness ==
    /\ last = "getAccessToken"
    /\ readResult.token # NullItem
    /\ readResult.expiry[1] = "num"
    /\ readResult.at >= readResult.expiry[2]
    /\ readResult.value = NullItem

\* A step in which a fetch is requested: mount, manual refresh, or the
\* settle timer after a code exchange.
FetchRequested ==
    /\ last' \in {"mount", "user", "timer:settle"}
    /\ \/ Mount(OneVerifier)
       \/ Refresh(OneVerifier)
       \/ SettleTimerFire(OneVerifier)

\* C2: a search request is issued only while the store holds an unexpired
\* token; a fetch requested without one starts one login, issues no search
\* and leaves the record list as it was.
C2_NoSearchWithoutSession ==
    [][/\ CountOf(pending', "fetch") > CountOf(pending, "fetch")
            => HasValidSession
       /\ (FetchRequested /\ ~HasValidSession) =>
            /\ CountOf(pending', "login") = CountOf(pending, "login") + 1
            /\ CountOf(pending', "fetch") = CountOf(pending, "fetch")
            /\ voicemails' = voicemails]_vars

C2_Witness ==
    /\ last = "user"
    /\ ls_token = NullItem
    /\ CountOf(pending, "login") > 0
    /\ CountOf(pending, "fetch") = 0
    /\ Len(voicemails) > 0

\* C3: a fetch whose search fails with status 401 removes token and expiry,
\* marks the session unauthenticated, starts exactly one login and leaves
\* the record list as it was.
C3_Fetch401ClearsAndLogsInOnce ==
    [][\A op \in Pending("fetch"), resp \in SessionResponses :
          (resp.status = 401 /\ FetchSettleStep(op, resp)) =>
              /\ ls_token' = NullItem
              /\ ls_expiration' = NoExpiry
              /\ ~isAuthenticated'
              /\ CountOf(pending', "login") = CountOf(pending, "login") + 1
              /\ voicemails' = voicemails]_vars

C3_Witness ==
    /\ last = "fetch:401"
    /\ ls_token = NullItem
    /\ ~isAuthenticated
    /\ CountOf(pending, "login") = 1
    /\ Len(voicemails) > 0

\* C4: a fetch whose search fails with a status other than 401, whatever
\* the response text, sets an error message, starts no login, and leaves
\* list, page count, Token Store and authenticated flag as they were.
C4_OtherFailureOnlyReports ==
    [][\A op \in Pending("fetch"), resp \in SessionResponses :
          (resp.status \notin {OkStatus, 401} /\ FetchSettleStep(op, resp)) =>
              /\ errorMessage' # NullItem
              /\ voicemails' = voicemails
              /\ pageCount' = pageCount
              /\ UNCHANGED tokenStore
              /\ isAuthenticated' = isAuthenticated
              /\ CountOf(pending', "login") = CountOf(pending, "login")]_vars

\* C5: every Gateway call that fails with status 401 (here: the search of a
\* fetch, the PATCH of setRead and delete) removes the stored session,
\* starts a login and sets no error message.
C5_Every401ClearsSessionSilently ==
    [][/\ \A op \in Pending("fetch"), resp \in SyncResponses :
             (resp.status = 401 /\ FetchSettleStep(op, resp)) =>
                 /\ ls_token' = NullItem /\ ls_expiration' = NoExpiry
                 /\ CountOf(pending', "login") = CountOf(pending, "login") + 1
                 /\ errorMessage' = errorMessage
       /\ \A op \in Pending("update"), resp \in PlainResponses :
             (resp.status = 401 /\ UpdateSettleStep(op, resp)) =>
                 /\ ls_token' = NullItem /\ ls_expiration' = NoExpiry
                 /\ CountOf(pending', "login") = CountOf(pending, "login") + 1
                 /\ errorMessage' = errorMessage]_vars

\* The step is loadVoicemails merging a successful search response that
\* has results (fetchSettle alone records this outcome).
MergeStep ==
    /\ last' = "fetch:merged"
    /\ CountOf(pending', "fetch") < CountOf(pending, "fetch")
\* The step is the user's click on a card's read toggle / delete entry.
UpdateIssued ==
    /\ last' = "user"
    /\ CountOf(pending', "update") > CountOf(pending, "update")
ToggleReadStep(id) ==
    UpdateIssued /\ Step(handleToggleRead(Ran(St, "user"), id))
DeleteStep(id) ==
    /\ UpdateIssued
    /\ \E v \in OneVerifier : Step(handleDelete(Ran(St, "user"), id, v))

C7_CachedIdsDistinct == DistinctIds(voicemails)

C7_Witness ==
    /\ last = "fetch:merged"
    /\ Len(voicemails) = Cardinality(Ids)
    /\ CountOf(pending, "fetch") > 0

\* C8: a note the user typed into a card before a re-fetch resolves is
\* still the card's note after that re-fetch's response is merged.
C8_MergeKeepsTypedNote ==
    [][MergeStep =>
        \A i \in 1 .. Len(voicemails) :
            LET old == voicemails[i]
                j == FindIndex(voicemails', old.id)
            IN (old.isEditing /\ old.note # old.originalNote /\ j # 0)
                   => voicemails'[j].note = old.note]_vars

\* C9: the delete handler leaves the record in the list while its PATCH is
\* unanswered, and a failed PATCH leaves the list as it was.
C9_DeleteWaitsForPatch ==
    [][/\ \A id \in Cached : DeleteStep(id) => id \in CachedIds(voicemails')
       /\ \A op \in Pending("update"), resp \in PlainResponses :
             (resp.status # OkStatus /\ UpdateSettleStep(op, resp)) =>
                 voicemails' = voicemails]_vars

\* Read flag, menu label and visual classes of every cached record.
ReadView(list) ==
    [i \in 1 .. Len(list) |->
        <<list[i].id, list[i].read, list[i].readMenuLabel,
          list[i].callerClass, list[i].cardClass>>]

\* C10: the read toggle changes no record's read flag, menu label or
\* classes; a failed PATCH leaves them unchanged and sets an error message;
\* a successful PATCH of the read flag sets the flag asked for, with the
\* label and classes derived from it, on that record only.
C10_ReadChangesOnlyAfterSuccess ==
    [][/\ UpdateIssued => \A id \in Cached :
             ToggleReadStep(id) => ReadView(voicemails') = ReadView(voicemails)
       /\ UpdateSettled => \A op \in Pending("update"), resp \in PlainResponses :
             UpdateSettleStep(op, resp) =>
                 IF resp.status # OkStatus
                 THEN /\ ReadView(voicemails') = ReadView(voicemails)
                      /\ errorMessage' # NullItem
                 ELSE /\ Len(voicemails') = Len(voicemails)
                      /\ \A i \in 1 .. Len(voicemails) :
                            IF op.upd = "read" /\ voicemails[i].id = op.id
                            THEN ReadView(voicemails')[i] =
                                     <<op.id, op.flag, ReadMenuLabel(op.flag),
                                       CallerClass(op.flag),
                                       getCardClass(op.flag,
                                                    voicemails[i].isExpanded)>>
                            ELSE ReadView(voicemails')[i] =
                                     ReadView(voicemails)[i]]_vars

C10_Witness ==
    /\ last = "update:read"
    /\ \E i \in 1 .. Len(voicemails) :
          voicemails[i].read /\ voicemails[i].readMenuLabel = "Mark as Unread"
    /\ \E i \in 1 .. Len(voicemails) : ~voicemails[i].read

\* The step sends exactly one search request, for the given page.
FetchIssuedFor(page) ==
    /\ CountOf(pending', "fetch") = CountOf(pending, "fetch") + 1
    /\ \E op \in BagToSet(pending') :
          /\ op.kind = "fetch" /\ op.idx = page
          /\ CopiesIn(op, pending') = CopiesIn(op, pending) + 1
NoFetchIssued == CountOf(pending', "fetch") = CountOf(pending, "fetch")

\* C11: with a valid session, deleting the only record of the last page
\* while the page is not the first steps the page back by one and sends a
\* search for that page; deleting the only record of page 1 of 1 leaves
\* the page at 1, the list empty, and sends no search.
C11_DeleteOnLastPageStepsBack ==
    [][UpdateIssued =>
        \A id \in Cached :
            (DeleteStep(id) /\ Len(voicemails) = 1 /\ HasValidSession) =>
                /\ (currentPage = pageCount /\ currentPage > 1) =>
                       /\ currentPage' = currentPage - 1
                       /\ FetchIssuedFor(currentPage - 1)
                /\ (currentPage = 1 /\ pageCount = 1) =>
                       /\ currentPage' = 1
                       /\ voicemails' = <<>>
                       /\ NoFetchIssued]_vars

C11_Witness ==
    /\ last = "user"
    /\ voicemails = <<>>
    /\ currentPage = MaxPages - 1
    /\ pageCount = MaxPages
    /\ \E op \in Pending("fetch") : op.idx = MaxPages - 1
    /\ \E op \in Pending("update") : op.upd = "deleted"

\* The step is the user's click on the previous / next page button.
PreviousPageStep ==
    \E v \in OneVerifier : Step(handlePreviousPage(Ran(St, "user"), v))
NextPageStep ==
    \E v \in OneVerifier : Step(handleNextPage(Ran(St, "user"), v))

\* C12: previousPage at page 1 and nextPage at the last page change neither
\* the page nor the requests in flight; away from the boundary, with a
\* valid session, each moves the page by one and sends one search for the
\* new page with the busy indicator shown.
C12_PaginationBoundaries ==
    [][last' = "user" =>
        /\ PreviousPageStep =>
              IF currentPage = 1
              THEN currentPage' = 1 /\ pending' = pending
              ELSE HasValidSession =>
                       /\ currentPage' = currentPage - 1
                       /\ FetchIssuedFor(currentPage - 1)
                       /\ isLoading'
        /\ NextPageStep =>
              IF currentPage = pageCount
              THEN currentPage' = currentPage /\ pending' = pending
              ELSE (currentPage < pageCount /\ HasValidSession) =>
                       /\ currentPage' = currentPage + 1
                       /\ FetchIssuedFor(currentPage + 1)
                       /\ isLoading']_vars

C12_Witness ==
    /\ last = "user"
    /\ currentPage = MaxPages
    /\ pageCount = MaxPages
    /\ isLoading
    /\ \E op \in Pending("fetch") : op.idx = MaxPages

\* C13: in every reachable state the page number is at least 1.
C13_PageAtLeastOne == currentPage >= 1

C13_Witness ==
    /\ last = "user"
    /\ currentPage = 1
    /\ pageCount = MaxPages
    /\ Len(voicemails) > 0
    /\ \E op \in Pending("fetch") : op.idx = MaxPages
    /\ \E op \in Pending("fetch") : op.idx = 1

\* C14: once a fetch has written the server's page count (one page or
\* more), the page number does not exceed the page count.
C14_PageWithinPageCount ==
    (last = "fetch:merged" /\ pageCount >= 1) => currentPage <= pageCount

\* The step is a call of loadVoicemailAudio(id) from the play button.
LoadAudioStep(id) == Step(handlePlayVoicemail(Ran(St, "user"), id))
\* A media request for id is in flight.
AudioInFlight(id) == \E op \in Pending("audio") : op.id = id
NoAudioIssued == CountOf(pending', "audio") = CountOf(pending, "audio")

\* C15: once loadedAudioUrls holds a URL for an id, loadAudio(id) sends no
\* media request and sets the record's audioUrl to the cached URL.
C15_CachedAudioNeedsNoRequest ==
    [][last' \in {"user", "audio:cached"} =>
        \A id \in Cached :
            (loadedAudioUrls[id] # NoUrl /\ LoadAudioStep(id)) =>
                /\ NoAudioIssued
                /\ voicemails'[FindIndex(voicemails', id)].audioUrl
                       = loadedAudioUrls[id]]_vars

C15_Witness ==
    /\ last = "audio:cached"
    /\ \E i \in 1 .. Len(voicemails) :
          /\ voicemails[i].audioUrl = loadedAudioUrls[voicemails[i].id]
          /\ voicemails[i].audioUrl # NoUrl
    /\ CountOf(pending, "audio") = 0

\* C15 as stated: a loadAudio(id) that follows an earlier loadAudio(id),
\* settled or not, sends no further media request for that id.
C15_SecondCallSendsNoRequest ==
    [][last' \in {"user", "audio:cached"} =>
        \A id \in Cached :
            ((loadedAudioUrls[id] # NoUrl \/ AudioInFlight(id))
                 /\ LoadAudioStep(id)) =>
                NoAudioIssued]_vars

\* C16: when loadAudio(id) settles, with success or failure, the cached
\* record with that id does not have its loading flag set.
C16_LoadingFlagClearedOnSettle ==
    [][last' \in {"audio:ok", "audio:failed"} =>
        \A op \in Pending("audio"), resp \in PlainResponses :
            Step(audioSettle(St, op, resp)) =>
                \A i \in 1 .. Len(voicemails') :
                    voicemails'[i].id = op.id => ~voicemails'[i].isLoading]_vars

\* C17: an entry of loadedAudioUrls, once written, is neither removed nor
\* changed by any step: paging, refetching, deleting, a 401, a new login.
C17_AudioUrlCacheAppendOnly ==
    [][\A id \in Ids :
          loadedAudioUrls[id] # NoUrl =>
              loadedAudioUrls'[id] = loadedAudioUrls[id]]_vars

C17_Witness ==
    /\ last = "exchange:ok"
    /\ isAuthenticated
    /\ \E id \in Ids : loadedAudioUrls[id] # NoUrl /\ id \notin Cached

\* The number of reload timers armed and not yet fired.
NotifyTimers(bag) == CountOf(bag, "notifyTimer")
\* The step arms exactly one reload timer, due one debounce delay from now.
NotifyTimerArmed ==
    LET op == Op("notifyTimer", "", 0, "", FALSE, "", now + DebounceDelayMs)
    IN pending' = pending (+) SetToBag({op})
\* The step is the callback of a reload timer that is due.
NotifyTimerDue ==
    \E op \in Pending("notifyTimer") :
        /\ now >= op.due
        /\ CopiesIn(op, pending') = CopiesIn(op, pending) - 1
        /\ NotifyTimers(pending') = NotifyTimers(pending) - 1

\* C18: a message whose topic contains voicemail.messages arms one timer of
\* the debounce delay and sends nothing; when that timer fires, not before
\* its delay has passed, and the session is valid, one search for the
\* current page is sent without the busy indicator; a message of another
\* topic arms no timer and sends nothing.
C18_VoicemailMessageRefetchesOnce ==
    [][now' = now =>
        /\ last' = "ws:voicemail" => NotifyTimerArmed /\ NoFetchIssued
        /\ last' = "ws:other" => pending' = pending
        /\ last' = "timer:notify" =>
              /\ NotifyTimerDue
              /\ HasValidSession =>
                    /\ FetchIssuedFor(currentPage)
                    /\ currentPage' = currentPage
                    /\ ~isLoading']_vars

C18_Witness ==
    /\ last = "timer:notify"
    /\ currentPage = MaxPages
    /\ NotifyTimers(pending) = 0
    /\ \E op \in Pending("fetch") : op.idx = MaxPages
    /\ CountOf(pending, "fetch") = 1
    /\ ~isLoading

\* C19: when a reload timer fires and sends its search, no other reload
\* timer armed within one debounce delay of it is still waiting to fire.
C19_MessagesInOneWindowCollapse ==
    [][(now' = now /\ last' = "timer:notify"
            /\ CountOf(pending', "fetch") > CountOf(pending, "fetch")) =>
        \A fired \in Pending("notifyTimer"), other \in Pending("notifyTimer") :
            (CopiesIn(fired, pending') < CopiesIn(fired, pending)
                 /\ CopiesIn(other, pending') > 0) =>
                other.due >= fired.due + DebounceDelayMs]_vars

\* The step starts setupWebSocketNotifications: a request to users/me.
ChannelSetupStarted ==
    \E op \in BagToSet(wsSetups') :
        /\ op.stage = "user"
        /\ CopiesIn(op, wsSetups') > CopiesIn(op, wsSetups)

\* C20: once disconnectedCallback has run, no step starts a new setup of
\* the notification channel: no reconnect is attempted.
C20_NoReconnectAfterTeardown ==
    [][phase = "disconnected" => ~ChannelSetupStarted]_vars

\* The step sends a token request.
ExchangeStarted == CountOf(pending', "exchange") > CountOf(pending, "exchange")
\* The step is the end of one code exchange.
ExchangeCompleted ==
    /\ now' = now
    /\ last' \in {"exchange:ok", "exchange:failed"}
    /\ CountOf(pending', "exchange") < CountOf(pending, "exchange")
\* The settle timer a successful exchange arms.
SettleTimer == Op("settleTimer", "", 0, "", FALSE, "", now + SettleDelayMs)

\* C26: an exchange that the token endpoint refuses or that fails sets the
\* exchange error message, leaves token and expiry as they were and arms no
\* timer; a valid callback message that finds no verifier sends no token
\* request, sets the same message and leaves token and expiry as they were.
C26_FailedExchangeReportsAndKeepsStore ==
    [][now' = now =>
        /\ (ExchangeCompleted /\ last' = "exchange:failed") =>
              /\ errorMessage' = ExchangeFailedMessage
              /\ UNCHANGED <<ls_token, ls_expiration, isAuthenticated>>
              /\ CountOf(pending', "settleTimer") = CountOf(pending, "settleTimer")
        /\ (last' = "message:valid" /\ listeners > 0
                /\ ss_verifier = NullItem) =>
              /\ ~ExchangeStarted
              /\ errorMessage' = ExchangeFailedMessage
              /\ UNCHANGED <<ls_token, ls_expiration, isAuthenticated>>]_vars

C26_Witness ==
    /\ last = "exchange:failed"
    /\ errorMessage = ExchangeFailedMessage
    /\ ls_token # NullItem
    /\ isAuthenticated

\* C27: when a code exchange completes, with success or with failure, no
\* verifier is stored any more.
C27_VerifierClearedAfterExchange ==
    [][ExchangeCompleted => ss_verifier' = NullItem]_vars

C29_OneMessageOneExchange ==
    [][(now' = now /\ last' = "message:valid") =>
        CountOf(pending', "exchange") <= CountOf(pending, "exchange") + 1]_vars

\* C30: a successful exchange marks the session authenticated and arms one
\* timer of the settle delay, starting neither a fetch nor a channel setup;
\* the timer fires no earlier than its delay and, with a valid session,
\* starts one busy fetch of the current page and one channel setup; a failed
\* exchange leaves the authenticated flag, arms no timer and starts nothing.
C30_FirstFetchAfterSettleDelay ==
    [][now' = now =>
        /\ (ExchangeCompleted /\ last' = "exchange:ok") =>
              /\ isAuthenticated'
              /\ \E op \in Pending("exchange") :
                    pending' = (pending (-) SetToBag({op}))
                                   (+) SetToBag({SettleTimer})
              /\ wsSetups' = wsSetups
        /\ (ExchangeCompleted /\ last' = "exchange:failed") =>
              /\ isAuthenticated' = isAuthenticated
              /\ \E op \in Pending("exchange") :
                    pending' = pending (-) SetToBag({op})
              /\ wsSetups' = wsSetups
        /\ last' = "timer:settle" =>
              /\ \E op \in Pending("settleTimer") :
                    /\ now >= op.due
                    /\ CopiesIn(op, pending') = CopiesIn(op, pending) - 1
              /\ HasValidSession =>
                    /\ FetchIssuedFor(currentPage)
                    /\ isLoading'
                    /\ ChannelSetupStarted
                    /\ BagCardinality(wsSetups')
                           = BagCardinality(wsSetups) + 1]_vars

C30_Witness ==
    /\ last = "timer:settle"
    /\ isAuthenticated
    /\ now >= SettleDelayMs
    /\ CountOf(pending, "fetch") = 1
    /\ CountOf(pending, "settleTimer") = 0
    /\ BagCardinality(wsSetups) = 1

\* The step is the callback of a reconnect timer that is due.
ReconnectTimerDue ==
    \E op \in Pending("reconnectTimer") :
        /\ now >= op.due
        /\ CopiesIn(op, pending') = CopiesIn(op, pending) - 1
\* A socket the component created is connecting or open.
SocketLive(ws, det) ==
    ws \in {"connecting", "open"} \/ det.connecting + det.open > 0

\* C21: the callback of the reconnect timer runs no earlier than the
\* reconnect delay after the close; it starts a channel setup only when the
\* authenticated flag is set and the stored token has not expired, and
\* otherwise sends no request and creates no socket.
C21_ReconnectOnlyWithValidSession ==
    [][(now' = now /\ last' = "timer:reconnect") =>
        /\ ReconnectTimerDue
        /\ NoFetchIssued
        /\ websocket' = websocket /\ detached' = detached
        /\ IF isAuthenticated /\ HasValidSession
           THEN ChannelSetupStarted
           ELSE wsSetups' = wsSetups]_vars

C21_Witness ==
    /\ last = "timer:reconnect"
    /\ phase = "connected"
    /\ websocket = "closed"
    /\ ls_token = NullItem
    /\ wsSetups = EmptyBag
    /\ now >= ReconnectDelayMs

\* C22: when a setup of the channel fails after the socket had closed,
\* while the component is mounted and the session valid, a reconnect timer
\* is armed or another setup is under way.
C22_FailedReconnectIsRetried ==
    [][(now' = now /\ last' = "ws:failed" /\ wsSetups' # wsSetups
            /\ websocket = "closed" /\ phase = "connected"
            /\ isAuthenticated /\ HasValidSession) =>
        \/ CountOf(pending', "reconnectTimer") > 0
        \/ wsSetups' # EmptyBag]_vars

\* C23: when the identity lookup, the channel creation or the subscription
\* of a channel setup fails, no socket is connecting or open and the
\* connected flag is off afterwards; the error message, the list and the
\* Token Store are as they were before.
C23_FailedSetupLeavesChannelDisconnected ==
    [][(now' = now /\ last' = "ws:failed" /\ wsSetups' # wsSetups) =>
        /\ ~SocketLive(websocket', detached')
        /\ ~isWebSocketConnected'
        /\ errorMessage' = errorMessage
        /\ voicemails' = voicemails
        /\ ls_token' = ls_token
        /\ ls_expiration' = ls_expiration]_vars

\* C24: when a fetch answers 401 and the session is removed, no socket is
\* connecting or open, the connected flag is off and channelId is null.
C24_ChannelTornDownOnInvalidSession ==
    [][(now' = now /\ last' = "fetch:401") =>
        /\ ~SocketLive(websocket', detached')
        /\ ~isWebSocketConnected'
        /\ channelId' = NullItem]_vars

\* C25: once disconnectedCallback has run, the callback of a settle, reload
\* or reconnect timer sends no search and starts no channel setup.
C25_NoRequestFromTimersAfterTeardown ==
    [][(now' = now /\ phase = "disconnected"
            /\ last' \in {"timer:settle", "timer:notify", "timer:reconnect"}) =>
        /\ NoFetchIssued
        /\ wsSetups' = wsSetups]_vars

\* C31: when handleLogin resumes and the popup is blocked, the error message
\* is the popup-blocked text, the verifier drawn by this login is stored,
\* one more message listener is registered, and a valid callback message
\* arriving next would start a code exchange.
C31_BlockedPopupKeepsVerifierAndListener ==
    [][(now' = now /\ last' = "login:blocked"
            /\ CountOf(pending', "login") < CountOf(pending, "login")) =>
        /\ errorMessage' = PopupBlockedMessage
        /\ ss_verifier' \in Verifiers
        /\ \E op \in Pending("login") : ss_verifier' = op.text
        /\ listeners' = listeners + 1
        /\ popupChallenge' = popupChallenge
        /\ \A ev \in CallbackEvents :
              CountOf(onAuthMessage(St', ev).pending, "exchange")
                  > CountOf(pending', "exchange")]_vars

C31_Witness ==
    /\ last = "login:blocked"
    /\ errorMessage = PopupBlockedMessage
    /\ ss_verifier \in Verifiers
    /\ listeners > 0
    /\ popupChallenge = NoChallenge

\* The requests of a channel setup sent by the step: the setups in flight
\* after it that were not in flight before it.
SetupRequestsSent ==
    {op \in BagToSet(wsSetups') :
        CopiesIn(op, wsSetups') > CopiesIn(op, wsSetups)}

\* C32: a request of the channel setup (users/me, channels, subscriptions)
\* carries the token that the Token Store holds when the request is sent.
C32_SetupRequestsCarryStoredToken ==
    [][now' = now => \A op \in SetupRequestsSent : op.token = ls_token']_vars

\* C33: between steps, the count of the last voicemailcount event equals
\* the number of cached records with read = false, and no cached record is
\* marked deleted.
C33_BadgeIsUnreadCount ==
    /\ badge = UnreadCount(voicemails)
    /\ \A i \in 1 .. Len(voicemails) : ~voicemails[i].deleted

\* A record was marked read while another stayed unread.
C33_Witness ==
    /\ last = "update:read"
    /\ badge = 1
    /\ Len(voicemails) = 2
    /\ \E i \in 1 .. Len(voicemails) : voicemails[i].read

\* The ids, read flags and notes of a list of records, in order.
ServerView(list) ==
    [i \in 1 .. Len(list) |-> <<list[i].id, list[i].read, list[i].note>>]

\* C34: when a search resolves with status 200 while another search is in
\* flight, the other search stays in flight, and the list and the page count
\* become those of this response (its records not marked deleted, or the
\* empty list and 0 when it has no results), whatever page the search was
\* made for and whatever the current page is.
C34_LastResolvedResponseWins ==
    [][\A op \in Pending("fetch"), resp \in PushResponses :
          (/\ resp.status = OkStatus
           /\ CountOf(pending, "fetch") >= 2
           /\ FetchSettleStep(op, resp)) =>
              /\ CountOf(pending', "fetch") = CountOf(pending, "fetch") - 1
              /\ pending' = pending (-) SetToBag({op})
              /\ IF resp.hasResults
                 THEN /\ ServerView(voicemails') =
                            ServerView(SelectSeq(resp.results,
                                                 LAMBDA vm : ~vm.deleted))
                      /\ pageCount' = resp.pageCount
                 ELSE voicemails' = <<>> /\ pageCount' = 0]_vars

\* A response was merged on the last page while a second search, made for
\* that page, is still in flight.
C34_Witness ==
    /\ last = "fetch:merged"
    /\ currentPage = MaxPages
    /\ Len(voicemails) > 0
    /\ Pending("fetch") # {}
    /\ \A op \in Pending("fetch") : op.idx = MaxPages

\* The step is handleSaveNote sending the PATCH of a note.
SaveNoteStep ==
    /\ last' = "user"
    /\ CountOf(pending', "update") > CountOf(pending, "update")

\* C35: the save handler leaves originalNote and the editing state of every
\* cached record as they are while its PATCH is unanswered, and after a
\* failed PATCH of a note the record still is in editing state.
C35_SaveNoteWaitsForPatch ==
    [][/\ SaveNoteStep =>
            \A i \in 1 .. Len(voicemails) :
                /\ voicemails'[i].originalNote = voicemails[i].originalNote
                /\ voicemails'[i].isEditing = voicemails[i].isEditing
       /\ \A op \in Pending("update"), resp \in PlainResponses :
             (/\ op.upd = "note"
              /\ resp.status # OkStatus
              /\ CountOf(pending, "fetch") = 0
              /\ UpdateSettleStep(op, resp)) =>
                 \A i \in 1 .. Len(voicemails') :
                     voicemails'[i].id = op.id => voicemails'[i].isEditing]_vars

\* C36: the audioUrl of every cached record is null or the URL that
\* loadedAudioUrls holds for the record's own id.
C36_AudioUrlBelongsToRecord ==
    \A i \in 1 .. Len(voicemails) :
        \/ voicemails[i].audioUrl = NoUrl
        \/ /\ voicemails[i].audioUrl = UrlOf(voicemails[i].id)
           /\ voicemails[i].audioUrl = loadedAudioUrls[voicemails[i].id]

\* The sockets created by the component that are connecting or open.
LiveSockets ==
    (IF websocket \in {"connecting", "open"} THEN 1 ELSE 0)
        + detached.connecting + detached.open

\* C37: at most one socket created by the component is connecting or open.
C37_AtMostOneLiveSocket == LiveSockets <= 1

\* The PATCH requests {deleted: true} for id that are in flight in bag.
DeletesOf(bag, id) ==
    {op \in BagToSet(bag) :
        op.kind = "update" /\ op.upd = "deleted" /\ op.id = id}

\* A search response that lists id as a message not deleted.
Lists(resp, id) ==
    /\ resp.status = OkStatus
    /\ resp.hasResults
    /\ \E i \in 1 .. Len(resp.results) :
          resp.results[i].id = id /\ ~resp.results[i].deleted

\* C38: when delete(id) is requested while a search is in flight, then
\* after the PATCH has succeeded and that search has resolved with a
\* response that still lists id, the list holds no record with that id.
C38_DeletedRecordStaysGone ==
    [][\A id \in Cached :
          DeleteStep(id) =>
              \A search \in Pending("fetch"), patch \in DeletesOf(pending', id),
                 resp \in SyncResponses, v \in OneVerifier :
                  Lists(resp, id) =>
                      LET accepted == [status |-> OkStatus, text |-> <<>>,
                                       hasBody |-> TRUE]
                          s1 == updateSettle(St', patch, accepted)
                          s2 == fetchSettle(s1, search, resp, v)
                      IN id \notin CachedIds(s2.voicemails)]_vars

\* C39: when the reload timer of a push event fires while the busy
\* indicator is shown for a fetch in flight, the indicator stays shown.
C39_BusyIndicatorSurvivesPushFetch ==
    [][(/\ now' = now
        /\ last' = "timer:notify"
        /\ isLoading
        /\ CountOf(pending, "fetch") > 0) => isLoading']_vars

\* C40: when a verifier is stored and an authorization URL has been opened,
\* the challenge in the URL opened last is the challenge of the stored
\* verifier.
C40_StoredVerifierMatchesOpenPopup ==
    (ss_verifier # NullItem /\ popupChallenge # NoChallenge)
        => popupChallenge = Challenge(ss_verifier)

====
